---- MODULE Spec2Model ----
(***************************************************************************)
(* Session controller of the SIWE wallet-authentication UI (AuthProvider   *)
(* in contexts/AuthContext.tsx).  The React state of the provider, the     *)
(* wallet account reported by wagmi, and every asynchronous invocation of  *)
(* a controller operation that is waiting for a response.  One action per  *)
(* synchronous run of code: from a call or the arrival of a response up to *)
(* the next await on the network or the wallet.                            *)
(***************************************************************************)
EXTENDS Integers, Sequences, FiniteSets, Bags, TLC

\* ---- bounds ----
MaxInFlight == 2       \* invocations that may be pending at the same time
MaxInvocations == 2    \* invocations started in one behaviour

\* ---- values ----
None == <<>>
Some(x) == <<x>>

NoAddress == "undefined"
Addresses == {"0xA", "0xB"}

\* the account states useAccount() reports after the page has loaded:
\* disconnected, or connected with an address
WalletStates == {<<FALSE, NoAddress>>} \cup {<<TRUE, a>> : a \in Addresses}

\* while wagmi restores a previous connection at page load it reports the
\* stored address with isConnected false
Reconnecting == {<<FALSE, a>> : a \in Addresses}

ChainId == 1
Domain == "siwe-siwe-auth.pkf1mn.easypanel.host"
Uri == "https://siwe-siwe-auth.pkf1mn.easypanel.host"
Version == "1"

\* a thrown value: an Error with a message, or something that is not an Error
Err(m) == [isError |-> TRUE, message |-> m]
NotAnError == [isError |-> FALSE, message |-> ""]
\* the errors the browser and the wallet produce: a rejected fetch, an
\* unreadable body, a refused signature; their text is the environment's
FetchRejected == Err("environment error")
BodyUnreadable == Err("environment error")
WalletRejected == Err("environment error")

\* err instanceof Error ? err.message : fallback
ErrorMessage(err, fallback) == IF err.isError THEN err.message ELSE fallback

\* a message built around one fixed nonce instead of the one received
createSiweMessageStaleNonce(addr, nonce) ==
  [address |-> addr, chainId |-> ChainId, domain |-> Domain,
   nonce |-> 1, uri |-> Uri, version |-> Version]

\* createSiweMessage({address, chainId, domain, nonce, uri, version})
createSiweMessage(addr, nonce) ==
  [address |-> addr, chainId |-> ChainId, domain |-> Domain,
   nonce |-> nonce, uri |-> Uri, version |-> Version]

NoMessage == [address |-> NoAddress, chainId |-> 0, domain |-> "",
              nonce |-> 0, uri |-> "", version |-> ""]

\* the signature the wallet returns for a message
SignatureOf(msg) == [signer |-> msg.address, nonce |-> msg.nonce]
NoSignature == [signer |-> NoAddress, nonce |-> 0]

\* body of GET /a/profile for the server's current profile
UserDataBody(profile) == [user |-> "user", profile |-> profile]
Profiles == {"none", "profile"}

\* ---- profile form values ----
\* a string is the sequence of its characters
Empty == <<>>
IsSpace(c) == c = " "

RECURSIVE TrimStart(_)
TrimStart(s) ==
  IF s # Empty /\ IsSpace(Head(s)) THEN TrimStart(Tail(s)) ELSE s

RECURSIVE TrimEnd(_)
TrimEnd(s) ==
  IF s # Empty /\ IsSpace(s[Len(s)]) THEN TrimEnd(SubSeq(s, 1, Len(s) - 1))
                                     ELSE s

\* String.prototype.trim()
trim(s) == TrimEnd(TrimStart(s))

\* /^[^\s@]+@[^\s@]+\.[^\s@]+$/.test(s)
EmailOk(s) ==
  \E i, j \in 1..Len(s) :
    /\ 1 < i /\ i + 1 < j /\ j < Len(s)
    /\ s[i] = "@" /\ s[j] = "."
    /\ \A k \in (1..Len(s)) \ {i} : ~IsSpace(s[k]) /\ s[k] # "@"

\* the i flag: letters compared without regard to case
LowerOf == [c \in {"H", "T", "P", "S", "N", "G"} |->
              CASE c = "H" -> "h" [] c = "T" -> "t" [] c = "P" -> "p"
                [] c = "S" -> "s" [] c = "N" -> "n" [] OTHER -> "g"]
Lower(s) == [k \in 1..Len(s) |->
               IF s[k] \in DOMAIN LowerOf THEN LowerOf[s[k]] ELSE s[k]]

StartsWith(s, p) == Len(s) >= Len(p) /\ SubSeq(s, 1, Len(p)) = p
EndsWith(s, e) ==
  Len(s) >= Len(e) /\ SubSeq(s, Len(s) - Len(e) + 1, Len(s)) = e

Schemes == {<<"h", "t", "t", "p", ":", "/", "/">>,
            <<"h", "t", "t", "p", "s", ":", "/", "/">>}
ImageExtensions == {<<"j", "p", "g">>, <<"j", "p", "e", "g">>,
                    <<"p", "n", "g">>, <<"g", "i", "f">>,
                    <<"w", "e", "b", "p">>, <<"s", "v", "g">>}

\* /^https?:\/\/.+\.(jpg|jpeg|png|gif|webp|svg)$/i.test(s)
AvatarOk(s) ==
  \E p \in Schemes, e \in ImageExtensions :
    /\ StartsWith(Lower(s), p)
    /\ EndsWith(Lower(s), <<".">> \o e)
    /\ Len(s) >= Len(p) + 1 + 1 + Len(e)

\* what the user may type into the three inputs of the form
NameInputs == {Empty, <<" ">>, <<" ", "A", "l", " ">>}
EmailInputs == {Empty, <<"a", "@", "b">>,
                <<" ", "a", "@", "b", ".", "c", " ">>}
AvatarInputs == {Empty, <<"x", ".", "p", "n", "g">>,
                 <<"h", "t", "t", "p", ":", "/", "/", "x", ".", "P", "N", "G">>}

\* useState<ProfileFormData>({ name: '', email: '', avatar: '' })
EmptyForm == [name |-> Empty, email |-> Empty, avatar |-> Empty]

\* a Partial<Profile>: each field present or left out
EmptyProfile == [name |-> None, email |-> None, avatar |-> None]
\* the stored profile the server returns in the user data
StoredProfile == [name |-> Some(<<"A", "l">>), email |-> None,
                  avatar |-> None]
\* the arguments a caller may pass to createOrUpdateProfile()
ProfileInputs ==
  {EmptyProfile,
   [EmptyProfile EXCEPT !.email = Some(<<"a", "@", "b">>)],
   [EmptyProfile EXCEPT !.name = Some(<<"A", "l">>)]}

\* no POST /auth/verify sent yet
NoBody == [message |-> NoMessage, signature |-> NoSignature]

Idle == [op |-> "idle", pc |-> "idle", addr |-> NoAddress,
         nonce |-> 0, message |-> NoMessage, signature |-> NoSignature,
         body |-> NoBody, payload |-> None, formSubmit |-> FALSE,
         raced |-> FALSE, stale |-> FALSE]

VARIABLES
  isAuthenticated,   \* useState(false)
  isLoading,         \* useState(false)
  error,             \* useState<string | null>(null)
  userData,          \* useState<UserData | null>(null)
  isConnected,       \* useAccount().isConnected
  address,           \* useAccount().address
  mounted,           \* the provider's mount effect has run
  inv,               \* the bag of pending invocations
  nextId,            \* number of invocations started so far
  srvNonce,          \* last nonce the server issued
  srvProfile,        \* the profile the server holds
  signLog,           \* signing requests made: nonce received, nonce signed
  showProfileForm,   \* WalletAuth: useState(false)
  profileForm,       \* WalletAuth: useState<ProfileFormData>
  issued,            \* the requests the step just taken issued
  last               \* the step just taken

vars == <<isAuthenticated, isLoading, error, userData, isConnected, address,
          mounted, inv, nextId, srvNonce, srvProfile, signLog,
          showProfileForm, profileForm, issued, last>>

react == <<isAuthenticated, isLoading, error, userData>>
wallet == <<isConnected, address>>
view == <<showProfileForm, profileForm>>

Invocations == BagToSet(inv)
CanStart == /\ nextId < MaxInvocations
            /\ BagCardinality(inv) < MaxInFlight

\* the requests one step issues, in the order it issues them
NoRequest == <<>>
Issue(request) == <<request>>

\* the record of a step: the operation, what happened, what it threw to its
\* caller, the session before it, and whether handleFormSubmit awaits it
Step(op, ev, thrown) ==
  [op |-> op, ev |-> ev, thrown |-> thrown,
   wasAuth |-> isAuthenticated, hadData |-> userData # None,
   formSubmit |-> FALSE, stale |-> FALSE]

\* the record of a step of invocation r
StepOf(r, ev, thrown) ==
  [Step(r.op, ev, thrown) EXCEPT !.formSubmit = r.formSubmit,
                                 !.stale = r.stale]

Pending(r, op, pc) == r \in Invocations /\ r.op = op /\ r.pc = pc
Start(r) == inv (+) SetToBag({r})
Finish(r) == inv (-) SetToBag({r})
Continue(r, r2) == (inv (-) SetToBag({r})) (+) SetToBag({r2})
Goto(r, pc) == Continue(r, [r EXCEPT !.pc = pc])

Init ==
  /\ isAuthenticated = FALSE
  /\ isLoading = FALSE
  /\ error = None
  /\ userData = None
  /\ \E w \in WalletStates \cup Reconnecting :
       isConnected = w[1] /\ address = w[2]
  /\ mounted = FALSE
  /\ inv = EmptyBag
  /\ nextId = 0
  /\ srvNonce = 0
  /\ srvProfile \in Profiles
  /\ signLog = {}
  /\ showProfileForm = FALSE
  /\ profileForm = EmptyForm
  /\ issued = NoRequest
  /\ last = [op |-> "init", ev |-> "init", thrown |-> None,
             wasAuth |-> FALSE, hadData |-> FALSE, formSubmit |-> FALSE,
             stale |-> FALSE]


NewInv(op, pc) ==
  [Idle EXCEPT !.op = op, !.pc = pc, !.addr = address]

\* ---- checkAuthStatus ----
\* the call up to the await of GET /auth/status
checkAuthStatusCall ==
  /\ inv' = Start(NewInv("checkAuthStatus", "status"))
  /\ nextId' = nextId + 1
  /\ issued' = Issue("GET /auth/status")

\* the effect without setUserData(null)
useEffectKeepsUserData(conn, addr) ==
  IF conn /\ addr # NoAddress
    THEN /\ CanStart
         /\ checkAuthStatusCall
         /\ UNCHANGED react
    ELSE /\ isAuthenticated' = FALSE
         /\ issued' = NoRequest
         /\ UNCHANGED <<userData, isLoading, error, inv, nextId>>

\* the effect resetting the session before it checks the status
useEffectResetsFirst(conn, addr) ==
  IF conn /\ addr # NoAddress
    THEN /\ CanStart
         /\ checkAuthStatusCall
         /\ isAuthenticated' = FALSE
         /\ userData' = None
         /\ UNCHANGED <<isLoading, error>>
    ELSE /\ isAuthenticated' = FALSE
         /\ userData' = None
         /\ issued' = NoRequest
         /\ UNCHANGED <<isLoading, error, inv, nextId>>

\* the effect aborting what is pending before it runs
useEffectCancelsPending(conn, addr) ==
  IF conn /\ addr # NoAddress
    THEN /\ CanStart
         /\ inv' = SetToBag({NewInv("checkAuthStatus", "status")})
         /\ nextId' = nextId + 1
         /\ issued' = Issue("GET /auth/status")
         /\ UNCHANGED react
    ELSE /\ isAuthenticated' = FALSE
         /\ userData' = None
         /\ issued' = NoRequest
         /\ inv' = EmptyBag
         /\ UNCHANGED <<isLoading, error, nextId>>

\* the effect testing the address alone
useEffectIgnoresConnected(conn, addr) ==
  IF addr # NoAddress
    THEN /\ CanStart
         /\ checkAuthStatusCall
         /\ UNCHANGED react
    ELSE /\ isAuthenticated' = FALSE
         /\ userData' = None
         /\ issued' = NoRequest
         /\ UNCHANGED <<isLoading, error, inv, nextId>>

\* the effect on [isConnected, address], run for the account (conn, addr)
useEffect(conn, addr) ==
  IF conn /\ addr # NoAddress
    THEN /\ CanStart
         /\ checkAuthStatusCall
         /\ UNCHANGED react
    ELSE /\ isAuthenticated' = FALSE
         /\ userData' = None
         /\ issued' = NoRequest
         /\ UNCHANGED <<isLoading, error, inv, nextId>>

Mount ==
  /\ ~mounted
  /\ mounted' = TRUE
  /\ useEffect(isConnected, address)
  /\ last' = Step("mount",
                  IF isConnected /\ address # NoAddress
                    THEN "checkAuthStatus" ELSE "reset", None)
  /\ UNCHANGED <<wallet, srvNonce, srvProfile, signLog>>
  /\ UNCHANGED view

WalletEvent(conn, addr) ==
  IF conn /\ addr # NoAddress
    THEN IF isConnected /\ address # NoAddress THEN "addressChange"
                                               ELSE "connect"
    ELSE "disconnect"

\* wagmi reports another account state; the provider re-renders and the
\* effect runs because a dependency changed
WalletChange(w) ==
  /\ mounted
  /\ w \in WalletStates
  /\ w # <<isConnected, address>>
  /\ isConnected' = w[1]
  /\ address' = w[2]
  /\ useEffect(w[1], w[2])
  /\ last' = Step("wallet", WalletEvent(w[1], w[2]), None)
  /\ UNCHANGED <<mounted, srvNonce, srvProfile, signLog>>
  /\ UNCHANGED view

checkAuthStatus ==
  /\ mounted
  /\ CanStart
  /\ checkAuthStatusCall
  /\ last' = Step("checkAuthStatus", "start", None)
  /\ UNCHANGED <<react, wallet, mounted, srvNonce, srvProfile, signLog>>
  /\ UNCHANGED view

StatusOutcomes == {"reject", "notOk", "badBody", "true", "false"}

\* a failed status check that leaves the session as it was
checkAuthStatusFailOpen(r) ==
  /\ inv' = Finish(r)
  /\ issued' = NoRequest
  /\ UNCHANGED <<isAuthenticated, userData, isLoading, error>>

\* a failed status check that also reports the failure in error
checkAuthStatusFailedSurfaces(r) ==
  /\ isAuthenticated' = FALSE
  /\ userData' = None
  /\ error' = Some(ErrorMessage(FetchRejected, "Status check failed"))
  /\ inv' = Finish(r)
  /\ issued' = NoRequest
  /\ UNCHANGED isLoading

\* what checkAuthStatus does when GET /auth/status fails
checkAuthStatusFailed(r) ==
  /\ isAuthenticated' = FALSE
  /\ userData' = None
  /\ inv' = Finish(r)
  /\ issued' = NoRequest
  /\ UNCHANGED <<isLoading, error>>

\* the answer applied, and the user data fetched whatever the answer is
checkAuthStatusAlwaysFetches(r, authenticated) ==
  /\ isAuthenticated' = authenticated
  /\ inv' = Goto(r, "profile")
  /\ issued' = Issue("GET /a/profile")
  /\ UNCHANGED <<userData, isLoading, error>>

\* what checkAuthStatus does with the server's answer
checkAuthStatusAnswer(r, authenticated) ==
  /\ isAuthenticated' = authenticated
  /\ IF authenticated
       THEN /\ inv' = Goto(r, "profile")
            /\ issued' = Issue("GET /a/profile")
       ELSE /\ inv' = Finish(r)
            /\ issued' = NoRequest
  /\ UNCHANGED <<userData, isLoading, error>>

StatusResponse(r, outcome) ==
  /\ Pending(r, "checkAuthStatus", "status")
  /\ outcome \in StatusOutcomes
  /\ IF outcome \in {"true", "false"}
       THEN checkAuthStatusAnswer(r, outcome = "true")
       ELSE checkAuthStatusFailed(r)
  /\ last' = StepOf(r, outcome, None)
  /\ UNCHANGED <<wallet, mounted, nextId, srvNonce, srvProfile, signLog>>
  /\ UNCHANGED view

\* ---- fetchUserData ----
ProfileOutcomes == {"ok", "notOk", "reject", "badBody"}

\* a failed fetch that keeps the user data already held
fetchUserDataKeepsStale(outcome) ==
  IF outcome = "ok" THEN Some(UserDataBody(srvProfile)) ELSE userData

\* the body used without looking at response.ok
fetchUserDataIgnoresStatus(outcome) ==
  IF outcome \in {"ok", "notOk"} THEN Some(UserDataBody(srvProfile)) ELSE None

\* the value fetchUserData() gives to setUserData
fetchUserDataResult(outcome) ==
  IF outcome = "ok" THEN Some(UserDataBody(srvProfile)) ELSE None

\* a fetch that is skipped while user data is held
fetchUserDataCached ==
  /\ mounted
  /\ CanStart
  /\ IF userData # None
       THEN /\ issued' = NoRequest
            /\ UNCHANGED <<inv, nextId>>
       ELSE /\ inv' = Start(NewInv("fetchUserData", "profile"))
            /\ nextId' = nextId + 1
            /\ issued' = Issue("GET /a/profile")
  /\ last' = Step("fetchUserData", "start", None)
  /\ UNCHANGED <<react, wallet, mounted, srvNonce, srvProfile, signLog>>
  /\ UNCHANGED view

\* the call up to the await of GET /a/profile
fetchUserData ==
  /\ mounted
  /\ CanStart
  /\ inv' = Start(NewInv("fetchUserData", "profile"))
  /\ nextId' = nextId + 1
  /\ issued' = Issue("GET /a/profile")
  /\ last' = Step("fetchUserData", "start", None)
  /\ UNCHANGED <<react, wallet, mounted, srvNonce, srvProfile, signLog>>
  /\ UNCHANGED view

\* the form closed and its fields kept
handleFormSubmitResolvedKeepsFields ==
  /\ showProfileForm' = FALSE
  /\ UNCHANGED profileForm

\* handleFormSubmit after its await of createOrUpdateProfile() resolved
handleFormSubmitResolved ==
  /\ showProfileForm' = FALSE
  /\ profileForm' = EmptyForm

\* the answer to GET /a/profile, the rest of the operation that awaited
\* fetchUserData(), and the rest of the handler that awaited the operation
ProfileResponse(r, outcome) ==
  /\ r \in Invocations
  /\ r.pc = "profile"
  /\ outcome \in ProfileOutcomes
  /\ userData' = fetchUserDataResult(outcome)
  /\ isLoading' = IF r.op \in {"checkAuthStatus", "fetchUserData"}
                    THEN isLoading ELSE FALSE
  /\ inv' = Finish(r)
  /\ last' = StepOf(r, IF outcome = "ok" THEN "profileOk"
                                            ELSE "profileFailed", None)
  /\ issued' = NoRequest
  /\ IF r.formSubmit THEN handleFormSubmitResolved ELSE UNCHANGED view
  /\ UNCHANGED <<isAuthenticated, error, wallet, mounted, nextId, srvNonce,
                 srvProfile, signLog>>


\* ---- authenticate ----
\* history of an invocation of authenticate(): raced is true once another
\* invocation of authenticate() has been pending together with it
Racing == \E r \in Invocations : r.op = "authenticate"
Raced(r) == IF r.op = "authenticate" THEN [r EXCEPT !.raced = TRUE] ELSE r
StartAuthenticate ==
  BagOfAll(Raced, inv) (+)
    SetToBag({[NewInv("authenticate", "nonce") EXCEPT !.raced = Racing]})

\* authenticate without the address precondition
authenticateUnguarded ==
  /\ mounted
  /\ CanStart
  /\ isLoading' = TRUE
  /\ error' = None
  /\ inv' = StartAuthenticate
  /\ nextId' = nextId + 1
  /\ issued' = Issue("GET /auth/nonce")
  /\ last' = Step("authenticate", "start", None)
  /\ UNCHANGED <<isAuthenticated, userData, wallet, mounted, srvNonce,
                 srvProfile, signLog>>
  /\ UNCHANGED view

\* authenticate asking the wallet to sign without awaiting getNonce()
authenticateNoAwait ==
  /\ mounted
  /\ IF address = NoAddress
       THEN /\ last' = Step("authenticate", "precondition",
                            Some("Wallet not connected"))
            /\ issued' = NoRequest
            /\ UNCHANGED <<react, inv, nextId>>
       ELSE /\ CanStart
            /\ isLoading' = TRUE
            /\ error' = None
            /\ inv' = StartAuthenticate
            /\ nextId' = nextId + 1
            /\ issued' = Issue("GET /auth/nonce") \o Issue("signMessage")
            /\ last' = Step("authenticate", "start", None)
            /\ UNCHANGED <<isAuthenticated, userData>>
  /\ UNCHANGED <<wallet, mounted, srvNonce, srvProfile, signLog>>
  /\ UNCHANGED view

\* the call: the address precondition, then up to the await of getNonce()
authenticate ==
  /\ mounted
  /\ IF address = NoAddress
       THEN /\ last' = Step("authenticate", "precondition",
                            Some("Wallet not connected"))
            /\ issued' = NoRequest
            /\ UNCHANGED <<react, inv, nextId>>
       ELSE /\ CanStart
            /\ isLoading' = TRUE
            /\ error' = None
            /\ inv' = StartAuthenticate
            /\ nextId' = nextId + 1
            /\ issued' = Issue("GET /auth/nonce")
            /\ last' = Step("authenticate", "start", None)
            /\ UNCHANGED <<isAuthenticated, userData>>
  /\ UNCHANGED <<wallet, mounted, srvNonce, srvProfile, signLog>>
  /\ UNCHANGED view

\* a catch block that also drops the session
authenticateCatchResets(r, err) ==
  /\ error' = Some(ErrorMessage(err, "Authentication failed"))
  /\ isLoading' = FALSE
  /\ isAuthenticated' = FALSE
  /\ inv' = Finish(r)
  /\ issued' = NoRequest
  /\ UNCHANGED userData

\* a finally block that keeps the spinner while another invocation runs
authenticateCatchWaitsForOthers(r, err) ==
  /\ error' = Some(ErrorMessage(err, "Authentication failed"))
  /\ isLoading' = (BagCardinality(inv) > 1)
  /\ inv' = Finish(r)
  /\ issued' = NoRequest
  /\ UNCHANGED <<isAuthenticated, userData>>

\* the catch block without the finally block
authenticateCatchNoFinally(r, err) ==
  /\ error' = Some(ErrorMessage(err, "Authentication failed"))
  /\ inv' = Finish(r)
  /\ issued' = NoRequest
  /\ UNCHANGED <<isAuthenticated, userData, isLoading>>

\* catch (err) { setError(...) } finally { setIsLoading(false) }
authenticateCatch(r, err) ==
  /\ error' = Some(ErrorMessage(err, "Authentication failed"))
  /\ isLoading' = FALSE
  /\ inv' = Finish(r)
  /\ issued' = NoRequest
  /\ UNCHANGED <<isAuthenticated, userData>>

NonceOutcomes == {"ok", "notOk", "reject", "badBody"}

\* what getNonce() throws for a failed GET /auth/nonce
getNonceError(outcome) ==
  CASE outcome = "notOk" -> Err("Failed to get nonce")
    [] outcome = "reject" -> FetchRejected
    [] OTHER -> BodyUnreadable

\* GET /auth/nonce answers; on success the message is built and the wallet
\* is asked to sign it
NonceResponse(r, outcome) ==
  /\ Pending(r, "authenticate", "nonce")
  /\ outcome \in NonceOutcomes
  /\ IF outcome = "ok"
       THEN LET nonce == srvNonce + 1
                message == createSiweMessage(r.addr, nonce)
            IN /\ srvNonce' = nonce
               /\ inv' = Continue(r, [r EXCEPT !.pc = "sign", !.nonce = nonce,
                                                  !.message = message])
               /\ signLog' = signLog \cup
                               {[received |-> nonce, signed |-> message.nonce]}
               /\ issued' = Issue("signMessage")
               /\ UNCHANGED react
       ELSE /\ authenticateCatch(r, getNonceError(outcome))
            /\ UNCHANGED <<srvNonce, signLog>>
  /\ last' = StepOf(r,
                  IF outcome = "ok" THEN "nonceOk" ELSE "nonceFailed", None)
  /\ UNCHANGED <<wallet, mounted, nextId, srvProfile>>
  /\ UNCHANGED view

SignOutcomes == {"signed", "rejected", "rejectedNotError"}

\* a body rebuilt for the address the wallet reports when it is sent
verifyBodyRebuilt(r, sig) ==
  [message |-> createSiweMessage(address, r.nonce), signature |-> sig]

\* body of POST /auth/verify: JSON.stringify({message, signature}) for the
\* message of invocation r and the signature the wallet returned
verifyBody(r, sig) == [message |-> r.message, signature |-> sig]

\* the wallet answers the signing request; on success POST /auth/verify
SignResponse(r, outcome) ==
  /\ Pending(r, "authenticate", "sign")
  /\ outcome \in SignOutcomes
  /\ IF outcome = "signed"
       THEN LET signature == SignatureOf(r.message)
            IN inv' = Continue(r, [r EXCEPT
                        !.pc = "verify", !.signature = signature,
                        !.body = verifyBody(r, signature)])
            /\ issued' = Issue("POST /auth/verify")
            /\ UNCHANGED react
       ELSE /\ authenticateCatch(r, IF outcome = "rejected"
                                      THEN WalletRejected ELSE NotAnError)
  /\ last' = StepOf(r,
                  IF outcome = "signed" THEN "signOk" ELSE "signFailed", None)
  /\ UNCHANGED <<wallet, mounted, nextId, srvNonce, srvProfile, signLog>>
  /\ UNCHANGED view

VerifyOutcomes == {"reject", "notOk", "badBody", "successFalse", "successTrue"}

verifyError(outcome) ==
  CASE outcome = "notOk" -> Err("Authentication failed")
    [] outcome = "successFalse" -> Err("Authentication verification failed")
    [] outcome = "reject" -> FetchRejected
    [] OTHER -> BodyUnreadable

\* any readable 2xx answer taken as a success, result.success not looked at
verifiedIgnoringBody(outcome) == outcome \in {"successTrue", "successFalse"}

\* authResponse.ok and result.success
verified(outcome) == outcome = "successTrue"

\* result.success: setIsAuthenticated(true), then await fetchUserData()
authenticateVerified(r) ==
  /\ isAuthenticated' = TRUE
  /\ inv' = Goto(r, "profile")
  /\ issued' = Issue("GET /a/profile")
  /\ UNCHANGED <<isLoading, error, userData>>

\* POST /auth/verify answers
VerifyResponse(r, outcome) ==
  /\ Pending(r, "authenticate", "verify")
  /\ outcome \in VerifyOutcomes
  /\ IF verified(outcome)
       THEN authenticateVerified(r)
       ELSE authenticateCatch(r, verifyError(outcome))
  /\ last' = StepOf(r,
                  IF outcome = "successTrue" THEN "verifyOk"
                                             ELSE "verifyFailed", None)
  /\ UNCHANGED <<wallet, mounted, nextId, srvNonce, srvProfile, signLog>>
  /\ UNCHANGED view

\* ---- logout ----
logout ==
  /\ mounted
  /\ CanStart
  /\ isLoading' = TRUE
  /\ error' = None
  /\ inv' = Start(NewInv("logout", "logout"))
  /\ nextId' = nextId + 1
  /\ issued' = Issue("POST /auth/logout")
  /\ last' = Step("logout", "start", None)
  /\ UNCHANGED <<isAuthenticated, userData, wallet, mounted, srvNonce,
                 srvProfile, signLog>>
  /\ UNCHANGED view

LogoutOutcomes == {"ok", "notOk", "reject"}

\* an invocation whose request was issued before a logout cleared the
\* session: it stays pending, nothing aborts it
Superseded(r) == [r EXCEPT !.stale = TRUE]

\* a finally block that keeps isLoading while another invocation is pending
logoutSettledWaitsForOthers(r, outcome) ==
  /\ IF outcome \in {"ok", "notOk"}
       THEN /\ isAuthenticated' = FALSE
            /\ userData' = None
            /\ UNCHANGED error
       ELSE /\ error' = Some(ErrorMessage(FetchRejected, "Logout failed"))
            /\ UNCHANGED <<isAuthenticated, userData>>
  /\ isLoading' = (BagCardinality(inv) > 1)
  /\ inv' = IF outcome \in {"ok", "notOk"} THEN BagOfAll(Superseded, Finish(r))
                                           ELSE Finish(r)
  /\ issued' = NoRequest

\* a logout that drops the invocations still pending when it clears the
\* session
logoutSettledCancelsPending(r, outcome) ==
  /\ IF outcome \in {"ok", "notOk"}
       THEN /\ isAuthenticated' = FALSE
            /\ userData' = None
            /\ inv' = EmptyBag
            /\ UNCHANGED error
       ELSE /\ error' = Some(ErrorMessage(FetchRejected, "Logout failed"))
            /\ inv' = Finish(r)
            /\ UNCHANGED <<isAuthenticated, userData>>
  /\ isLoading' = FALSE
  /\ issued' = NoRequest

\* the rest of logout once the awaited fetch settles
logoutSettled(r, outcome) ==
  /\ IF outcome \in {"ok", "notOk"}
       THEN /\ isAuthenticated' = FALSE
            /\ userData' = None
            /\ UNCHANGED error
       ELSE /\ error' = Some(ErrorMessage(FetchRejected, "Logout failed"))
            /\ UNCHANGED <<isAuthenticated, userData>>
  /\ isLoading' = FALSE
  /\ inv' = IF outcome \in {"ok", "notOk"} THEN BagOfAll(Superseded, Finish(r))
                                           ELSE Finish(r)
  /\ issued' = NoRequest

LogoutResponse(r, outcome) ==
  /\ Pending(r, "logout", "logout")
  /\ outcome \in LogoutOutcomes
  /\ logoutSettled(r, outcome)
  /\ last' = StepOf(r, outcome, None)
  /\ UNCHANGED <<wallet, mounted, nextId, srvNonce, srvProfile, signLog>>
  /\ UNCHANGED view

\* ---- profile mutations ----
MutationStart(op, endpoint, payload, formSubmit) ==
  /\ mounted
  /\ CanStart
  /\ isLoading' = TRUE
  /\ error' = None
  /\ inv' = Start([NewInv(op, "mutation") EXCEPT
                     !.payload = payload, !.formSubmit = formSubmit])
  /\ nextId' = nextId + 1
  /\ issued' = Issue(endpoint)
  /\ last' = [Step(op, "start", None) EXCEPT !.formSubmit = formSubmit]
  /\ UNCHANGED <<isAuthenticated, userData, wallet, mounted, srvNonce,
                 srvProfile, signLog>>
  /\ UNCHANGED view

\* body: JSON.stringify(profileData)
createOrUpdateProfile(profileData, formSubmit) ==
  MutationStart("createOrUpdateProfile", "POST /a/profile",
                Some(profileData), formSubmit)

deleteProfile ==
  MutationStart("deleteProfile", "DELETE /a/profile", None, FALSE)

MutationOutcomes == {"ok", "notOk", "reject"}

mutationError(op, outcome) ==
  IF outcome = "reject" THEN FetchRejected
  ELSE IF op = "deleteProfile" THEN Err("Failed to delete profile")
                               ELSE Err("Failed to update profile")

mutationFallback(op) ==
  IF op = "deleteProfile" THEN "Profile deletion failed"
                          ELSE "Profile update failed"

\* a catch block that records the error and returns
mutationSwallowed(err) == None

\* catch (err) { setError(...); throw err }
mutationThrown(err) == Some(err.message)

\* handleFormSubmit when its await of createOrUpdateProfile() threw:
\* catch (err) { console.error(...) }
handleFormSubmitRejected == UNCHANGED view

\* POST or DELETE /a/profile answers
MutationResponse(r, outcome) ==
  /\ r \in Invocations
  /\ r.pc = "mutation"
  /\ outcome \in MutationOutcomes
  /\ IF outcome = "ok"
       THEN /\ inv' = Goto(r, "profile")
            /\ issued' = Issue("GET /a/profile")
            /\ srvProfile' = IF r.op = "deleteProfile" THEN "none"
                                                            ELSE "profile"
            /\ last' = StepOf(r, "mutationOk", None)
            /\ UNCHANGED <<isLoading, error, view>>
       ELSE LET err == mutationError(r.op, outcome)
                msg == ErrorMessage(err, mutationFallback(r.op))
            IN /\ error' = Some(msg)
               /\ isLoading' = FALSE
               /\ inv' = Finish(r)
               /\ last' = StepOf(r, "mutationFailed", mutationThrown(err))
               /\ issued' = NoRequest
               /\ IF r.formSubmit THEN handleFormSubmitRejected
                                  ELSE UNCHANGED view
               /\ UNCHANGED srvProfile
  /\ UNCHANGED <<isAuthenticated, userData, wallet, mounted, nextId, srvNonce,
                 signLog>>

\* ---- the profile form of the view (WalletAuth) ----
\* {isConnected && address && ...} and the branch for isAuthenticated
Dashboard == isConnected /\ address # NoAddress /\ isAuthenticated

HasProfile == userData # None /\ userData[1].profile # "none"

\* a step of the view alone: nothing of the controller changes
ViewStep(handler, ev) ==
  /\ last' = Step(handler, ev, None)
  /\ issued' = NoRequest
  /\ UNCHANGED <<react, wallet, mounted, inv, nextId, srvNonce, srvProfile,
                 signLog>>

\* the Create buttons, shown while there is no profile to show
handleCreateProfile ==
  /\ Dashboard /\ ~HasProfile /\ ~isLoading
  /\ profileForm' = EmptyForm
  /\ showProfileForm' = TRUE
  /\ ViewStep("handleCreateProfile", "open")

\* profile.name || ''
OrEmpty(field) == IF field = None THEN Empty ELSE field[1]

\* the Edit buttons, shown with the profile
handleEditProfile ==
  /\ Dashboard /\ HasProfile /\ ~isLoading
  /\ profileForm' = [f \in DOMAIN EmptyForm |-> OrEmpty(StoredProfile[f])]
  /\ showProfileForm' = TRUE
  /\ ViewStep("handleEditProfile", "open")

FieldInputs(f) ==
  CASE f = "name" -> NameInputs
    [] f = "email" -> EmailInputs
    [] OTHER -> AvatarInputs

\* onChange of an input: setProfileForm({ ...profileForm, [f]: value })
setProfileForm(f, value) ==
  /\ showProfileForm
  /\ f \in DOMAIN EmptyForm
  /\ value \in FieldInputs(f)
  /\ value # profileForm[f]
  /\ profileForm' = [profileForm EXCEPT ![f] = value]
  /\ UNCHANGED showProfileForm
  /\ ViewStep("setProfileForm", f)

\* the close button and the click on the overlay
closeProfileForm ==
  /\ showProfileForm
  /\ showProfileForm' = FALSE
  /\ UNCHANGED profileForm
  /\ ViewStep("closeProfileForm", "close")

\* validation without the test of the email
formErrorWithoutEmail(form) ==
  IF trim(form.name) = Empty /\ trim(form.email) = Empty
       /\ trim(form.avatar) = Empty
    THEN Some("Please fill in at least one field")
  ELSE IF trim(form.avatar) # Empty /\ ~AvatarOk(trim(form.avatar))
    THEN Some("Please enter a valid image URL (jpg, jpeg, png, gif, webp, svg)")
  ELSE None

\* the three validations of handleFormSubmit: the alert shown, or None
formError(form) ==
  IF trim(form.name) = Empty /\ trim(form.email) = Empty
       /\ trim(form.avatar) = Empty
    THEN Some("Please fill in at least one field")
  ELSE IF trim(form.email) # Empty /\ ~EmailOk(trim(form.email))
    THEN Some("Please enter a valid email address")
  ELSE IF trim(form.avatar) # Empty /\ ~AvatarOk(trim(form.avatar))
    THEN Some("Please enter a valid image URL (jpg, jpeg, png, gif, webp, svg)")
  ELSE None

\* all three fields, trimmed, the empty ones as empty strings
profileDataOfAllFields(form) ==
  [f \in DOMAIN EmptyForm |-> Some(trim(form[f]))]

\* only the non-empty fields, trimmed
profileDataOf(form) ==
  [f \in DOMAIN EmptyForm |->
     IF trim(form[f]) # Empty THEN Some(trim(form[f])) ELSE None]

\* the submit button of the form, up to the await of
\* createOrUpdateProfile(profileData)
handleFormSubmit ==
  /\ showProfileForm /\ ~isLoading
  /\ IF formError(profileForm) # None
       THEN /\ ViewStep("handleFormSubmit", "alert")
            /\ UNCHANGED view
       ELSE createOrUpdateProfile(profileDataOf(profileForm), TRUE)

Next ==
  \/ Mount
  \/ \E w \in WalletStates : WalletChange(w)
  \/ checkAuthStatus
  \/ \E r \in Invocations, o \in StatusOutcomes : StatusResponse(r, o)
  \/ fetchUserData
  \/ \E r \in Invocations, o \in ProfileOutcomes : ProfileResponse(r, o)
  \/ authenticate
  \/ \E r \in Invocations, o \in NonceOutcomes : NonceResponse(r, o)
  \/ \E r \in Invocations, o \in SignOutcomes : SignResponse(r, o)
  \/ \E r \in Invocations, o \in VerifyOutcomes : VerifyResponse(r, o)
  \/ logout
  \/ \E r \in Invocations, o \in LogoutOutcomes : LogoutResponse(r, o)
  \/ \E d \in ProfileInputs : createOrUpdateProfile(d, FALSE)
  \/ deleteProfile
  \/ \E r \in Invocations, o \in MutationOutcomes : MutationResponse(r, o)

Spec == Init /\ [][Next]_vars

\* ---- every request and the signing prompt eventually answer ----
\* what pending invocation r does when the request or prompt it awaits answers
Response(r) ==
  \/ \E o \in StatusOutcomes : StatusResponse(r, o)
  \/ \E o \in ProfileOutcomes : ProfileResponse(r, o)
  \/ \E o \in NonceOutcomes : NonceResponse(r, o)
  \/ \E o \in SignOutcomes : SignResponse(r, o)
  \/ \E o \in VerifyOutcomes : VerifyResponse(r, o)
  \/ \E o \in LogoutOutcomes : LogoutResponse(r, o)
  \/ \E o \in MutationOutcomes : MutationResponse(r, o)

\* while something is pending, some answer eventually arrives
Answers == WF_vars(\E r \in Invocations : Response(r))

SpecLive == Init /\ [][Next]_vars /\ Answers

\* ---- the profile form and the mutation it submits ----
\* a mounted provider with a connected wallet, any session, the form closed
InitForm ==
  /\ isAuthenticated \in BOOLEAN
  /\ isLoading = FALSE
  /\ error = None
  /\ userData \in {None} \cup {Some(UserDataBody(p)) : p \in Profiles}
  /\ isConnected = TRUE
  /\ address = CHOOSE a \in Addresses : TRUE
  /\ mounted = TRUE
  /\ inv = EmptyBag
  /\ nextId = 0
  /\ srvNonce = 0
  /\ srvProfile \in Profiles
  /\ signLog = {}
  /\ showProfileForm = FALSE
  /\ profileForm = EmptyForm
  /\ issued = NoRequest
  /\ last = [op |-> "init", ev |-> "init", thrown |-> None,
             wasAuth |-> isAuthenticated, hadData |-> userData # None,
             formSubmit |-> FALSE, stale |-> FALSE]

NextForm ==
  \/ handleCreateProfile
  \/ handleEditProfile
  \/ \E f \in DOMAIN EmptyForm, v \in NameInputs \cup EmailInputs
                                         \cup AvatarInputs :
       setProfileForm(f, v)
  \/ closeProfileForm
  \/ handleFormSubmit
  \/ \E d \in ProfileInputs : createOrUpdateProfile(d, FALSE)
  \/ \E r \in Invocations, o \in MutationOutcomes : MutationResponse(r, o)
  \/ \E r \in Invocations, o \in ProfileOutcomes : ProfileResponse(r, o)

SpecForm == InitForm /\ [][NextForm]_vars

\* ---- the whole view: every button, the wallet and the answers ----
\* the auth section, rendered while a wallet is connected
AuthSection == isConnected /\ address # NoAddress

\* the Sign In button, shown while not authenticated
handleAuthenticate ==
  /\ AuthSection /\ ~isAuthenticated /\ ~isLoading
  /\ authenticate

\* the Logout button of the authenticated branch
handleLogout ==
  /\ Dashboard /\ ~isLoading
  /\ logout

\* the Retry button, shown while authenticated without user data
handleRetryFetchData ==
  /\ Dashboard /\ userData = None /\ ~isLoading
  /\ fetchUserData

\* the Delete button next to Edit, its confirm dialog accepted
handleDeleteProfile ==
  /\ Dashboard /\ HasProfile /\ ~isLoading
  /\ deleteProfile

NextView ==
  \/ handleAuthenticate
  \/ handleLogout
  \/ handleRetryFetchData
  \/ handleDeleteProfile
  \/ handleCreateProfile
  \/ handleEditProfile
  \/ \E f \in DOMAIN EmptyForm, v \in NameInputs \cup EmailInputs
                                         \cup AvatarInputs :
       setProfileForm(f, v)
  \/ closeProfileForm
  \/ handleFormSubmit
  \/ \E w \in WalletStates : WalletChange(w)
  \/ \E r \in Invocations, o \in StatusOutcomes : StatusResponse(r, o)
  \/ \E r \in Invocations, o \in ProfileOutcomes : ProfileResponse(r, o)
  \/ \E r \in Invocations, o \in NonceOutcomes : NonceResponse(r, o)
  \/ \E r \in Invocations, o \in SignOutcomes : SignResponse(r, o)
  \/ \E r \in Invocations, o \in VerifyOutcomes : VerifyResponse(r, o)
  \/ \E r \in Invocations, o \in LogoutOutcomes : LogoutResponse(r, o)
  \/ \E r \in Invocations, o \in MutationOutcomes : MutationResponse(r, o)

SpecView == InitForm /\ [][NextView]_vars

\* ---- properties ----
AuthenticateFailures == {"nonceFailed", "signFailed", "verifyFailed"}
StatusFailures == {"reject", "notOk", "badBody"}
After(op, evs) == last.op = op /\ last.ev \in evs
AuthUnchanged == isAuthenticated = last.wasAuth
PendingAt(op, pc) == {r \in Invocations : r.op = op /\ r.pc = pc}

\* C1: right after a wallet-disconnect event isAuthenticated is false and
\* userData is null, whatever the session was before the event.
C1_DisconnectClearsSession ==
  After("wallet", {"disconnect"}) => (~isAuthenticated /\ userData = None)

C1_Witness ==
  /\ After("wallet", {"disconnect"})
  /\ last.wasAuth /\ last.hadData
  /\ ~isConnected

\* C2: logout() ends with isAuthenticated false and userData null whatever
\* the outcome of POST /auth/logout: a success, a non-success status such
\* as 500, or a rejected request.
C2_LogoutAlwaysClears ==
  After("logout", LogoutOutcomes) => (~isAuthenticated /\ userData = None)

\* C3: authenticate() called with no wallet address throws 'Wallet not
\* connected', issues no network request and no signing request, and leaves
\* isAuthenticated, isLoading, error and userData as they were.
C3_NoAddressFailsFirst ==
  [][(last'.op = "authenticate" /\ last'.ev \in {"start", "precondition"}
        /\ address = NoAddress)
       => /\ last'.ev = "precondition"
          /\ last'.thrown = Some("Wallet not connected")
          /\ issued' = NoRequest
          /\ inv' = inv
          /\ UNCHANGED <<isAuthenticated, isLoading, error, userData>>]_vars

C3_Witness ==
  /\ After("authenticate", {"precondition"})
  /\ address = NoAddress
  /\ last.thrown = Some("Wallet not connected")

C5_FetchFailureKeepsSession ==
  [][/\ (last'.op = "authenticate" /\ last'.ev = "verifyOk")
        => /\ isAuthenticated'
           /\ issued' = Issue("GET /a/profile")
           /\ PendingAt("authenticate", "profile")' # {}
           /\ UNCHANGED <<error, userData>>
     /\ (last'.op = "authenticate" /\ last'.ev = "profileFailed")
        => /\ UNCHANGED <<isAuthenticated, error>>
           /\ userData' = None
           /\ ~isLoading']_vars

C5_Witness ==
  /\ After("authenticate", {"profileFailed"})
  /\ isAuthenticated
  /\ userData = None
  /\ error = None

\* C6: checkAuthStatus() is fail-closed: when GET /auth/status is rejected,
\* answers a non-success status or has an unreadable body, it completes with
\* isAuthenticated false and userData null, and throws nothing to its caller.
C6_StatusFailClosed ==
  /\ After("checkAuthStatus", StatusFailures) =>
        (~isAuthenticated /\ userData = None /\ issued = NoRequest)
  /\ last.op = "checkAuthStatus" => last.thrown = None

C6_Witness ==
  /\ After("checkAuthStatus", {"badBody"})
  /\ last.wasAuth /\ last.hadData
  /\ ~isAuthenticated /\ userData = None

\* C7: when GET /auth/status succeeds checkAuthStatus() sets isAuthenticated
\* to the server's answer, and it issues GET /a/profile (fetchUserData) if
\* and only if the answer is true.
C7_StatusAnswerApplied ==
  After("checkAuthStatus", {"true", "false"}) =>
    /\ isAuthenticated = (last.ev = "true")
    /\ issued = (IF last.ev = "true" THEN Issue("GET /a/profile")
                                       ELSE NoRequest)
    /\ last.ev = "true" => PendingAt("checkAuthStatus", "profile") # {}

C7_Witness ==
  /\ After("checkAuthStatus", {"true"})
  /\ ~last.wasAuth
  /\ isAuthenticated
  /\ issued = Issue("GET /a/profile")

\* C8 as stated: whenever the connected wallet reports a different address
\* while staying connected, the session is reset to unauthenticated.
C8_AddressChangeResets ==
  After("wallet", {"addressChange"}) => ~isAuthenticated

\* C8 amended: an address change of a connected wallet leaves
\* isAuthenticated and userData as they were and starts one
\* checkAuthStatus() (one GET /auth/status), whose answer then decides.
C8_AddressChangeRechecks ==
  After("wallet", {"addressChange"}) =>
    /\ AuthUnchanged
    /\ (userData # None) = last.hadData
    /\ issued = Issue("GET /auth/status")
    /\ PendingAt("checkAuthStatus", "status") # {}

C8_Witness ==
  /\ After("wallet", {"addressChange"})
  /\ last.wasAuth /\ last.hadData
  /\ isAuthenticated /\ userData # None
  /\ isConnected

\* C9 as stated: isAuthenticated changes only by a successful authenticate()
\* (false to true), by logout() (true to false), by a wallet disconnect or
\* address change (to false), or by checkAuthStatus() answered authenticated
\* (false to true).
ListedTransition ==
  \/ ~last.wasAuth /\ isAuthenticated /\ After("authenticate", {"verifyOk"})
  \/ last.wasAuth /\ ~isAuthenticated /\ After("logout", LogoutOutcomes)
  \/ ~isAuthenticated /\ After("wallet", {"disconnect", "addressChange"})
  \/ ~last.wasAuth /\ isAuthenticated /\ After("checkAuthStatus", {"true"})

C9_OnlyFourTransitions == ~AuthUnchanged => ListedTransition

\* C9 amended: the four listed transitions and one more, true to false by a
\* checkAuthStatus() that fails or is answered not authenticated, are the
\* only changes of isAuthenticated.
C9_OnlyFiveTransitions ==
  ~AuthUnchanged =>
    \/ ListedTransition
    \/ /\ last.wasAuth /\ ~isAuthenticated
       /\ After("checkAuthStatus", StatusFailures \cup {"false"})

C9_Witness ==
  /\ After("checkAuthStatus", {"false"})
  /\ last.wasAuth
  /\ ~isAuthenticated

\* C10: every authenticate() that passes the address precondition requests
\* a nonce from GET /auth/nonce and signs a message holding the nonce it
\* received; no message holds a nonce received by another invocation.
C10_FreshNonce ==
  /\ After("authenticate", {"start"}) => issued = Issue("GET /auth/nonce")
  /\ After("authenticate", {"nonceOk"}) => issued = Issue("signMessage")
  /\ \A e \in signLog : e.signed = e.received
  /\ Cardinality(signLog) = srvNonce
  /\ \A r \in Invocations :
       (r.op = "authenticate" /\ r.pc # "nonce") =>
         /\ r.message.nonce = r.nonce
         /\ r.message.address = r.addr
         /\ [received |-> r.nonce, signed |-> r.nonce] \in signLog

\* a second invocation signs its own nonce after the first one failed
C10_Witness ==
  /\ After("authenticate", {"nonceOk"})
  /\ Cardinality(signLog) = 2
  /\ BagCardinality(inv) = 1
  /\ ~isConnected /\ address # NoAddress
  /\ ~isAuthenticated
  /\ \E r \in PendingAt("authenticate", "sign") : r.message.nonce = 2

\* C11: in an authenticate() run that succeeds, the message posted to
\* /auth/verify holds the nonce the server issued to this run and is the
\* message that was signed, the posted signature is the one the wallet
\* returned for it; after a verify answer with success true isAuthenticated
\* is true and GET /a/profile is issued once, and not again when it answers.
C11_VerifyBodyIsWhatWasSigned ==
  /\ \A r \in Invocations :
       (r.op = "authenticate" /\ r.pc \in {"verify", "profile"}) =>
         /\ r.body.message = r.message
         /\ r.body.message = createSiweMessage(r.addr, r.nonce)
         /\ r.body.signature = SignatureOf(r.message)
         /\ [received |-> r.nonce, signed |-> r.body.message.nonce]
              \in signLog
  /\ After("authenticate", {"signOk"}) => issued = Issue("POST /auth/verify")
  /\ After("authenticate", {"verifyOk"}) =>
       (isAuthenticated /\ issued = Issue("GET /a/profile"))
  /\ After("authenticate", {"profileOk", "profileFailed"}) =>
       issued = NoRequest

\* the wallet moved to another address while the first address's message
\* was being signed and verified
C11_Witness ==
  /\ After("authenticate", {"verifyOk"})
  /\ isAuthenticated
  /\ \E r \in PendingAt("authenticate", "profile") :
       /\ r.addr # address
       /\ r.body.message.address = r.addr
       /\ r.body.signature.signer = r.addr
       /\ r.body.message.nonce = srvNonce

\* C12: on mount and at every change of the wallet's connection or address,
\* if the wallet is connected with an address one checkAuthStatus() is
\* started (one GET /auth/status) and the session is left as it is;
\* otherwise the session is reset locally (isAuthenticated false, userData
\* null) and no request is issued.
C12_EffectChecksOrResets ==
  last.op \in {"mount", "wallet"} =>
    IF isConnected /\ address # NoAddress
      THEN /\ issued = Issue("GET /auth/status")
           /\ PendingAt("checkAuthStatus", "status") # {}
           /\ AuthUnchanged
           /\ (userData # None) = last.hadData
      ELSE /\ issued = NoRequest
           /\ ~isAuthenticated
           /\ userData = None

\* the page mounts while wagmi still restores the connection, then the
\* wallet connects
C12_Witness ==
  /\ After("wallet", {"connect"})
  /\ isConnected /\ address # NoAddress
  /\ nextId = 1
  /\ issued = Issue("GET /auth/status")
  /\ BagCardinality(inv) = 1

\* C13: fetchUserData() never throws: when GET /a/profile succeeds userData
\* is the body the server sent; when the request is rejected, answers a
\* non-success status or has an unreadable body, userData is null and the
\* call still returns normally to whoever awaited it.
C13_FetchUserDataNeverThrows ==
  /\ last.ev = "profileOk" =>
       (userData = Some(UserDataBody(srvProfile)) /\ last.thrown = None)
  /\ last.ev = "profileFailed" => (userData = None /\ last.thrown = None)
  /\ last.op = "fetchUserData" => last.thrown = None

C13_Witness ==
  /\ After("fetchUserData", {"profileFailed"})
  /\ last.hadData
  /\ userData = None
  /\ last.thrown = None
  /\ inv = EmptyBag

MutationOps == {"createOrUpdateProfile", "deleteProfile"}

\* C14: createOrUpdateProfile() and deleteProfile(): when the server
\* answers success the operation issues one GET /a/profile (fetchUserData)
\* and then returns normally with isLoading false; when the server answers
\* a non-success status or the request is rejected it issues nothing more,
\* leaves userData as it was, sets error, clears isLoading and re-throws.
C14_MutationRefreshesOrRethrows ==
  last.op \in MutationOps =>
    /\ last.ev = "mutationOk" =>
         /\ issued = Issue("GET /a/profile")
         /\ PendingAt(last.op, "profile") # {}
         /\ last.thrown = None
    /\ last.ev \in {"profileOk", "profileFailed"} =>
         /\ issued = NoRequest
         /\ last.thrown = None
         /\ ~isLoading
    /\ last.ev = "mutationFailed" =>
         /\ issued = NoRequest
         /\ (userData # None) = last.hadData
         /\ error # None
         /\ ~isLoading
         /\ last.thrown # None

C14_Witness ==
  /\ After("deleteProfile", {"mutationFailed"})
  /\ error = Some("Failed to delete profile")
  /\ last.thrown = Some("Failed to delete profile")
  /\ last.hadData /\ userData # None
  /\ ~isLoading

\* input that must not be sent: no field with text, or an email that is
\* not a well-formed address
InvalidProfileData(d) ==
  \/ \A f \in DOMAIN d : d[f] = None \/ trim(d[f][1]) = Empty
  \/ d.email # None /\ trim(d.email[1]) # Empty /\ ~EmailOk(trim(d.email[1]))

\* C15 as stated: createOrUpdateProfile() called with invalid input (all
\* fields empty after trimming, or a malformed email) makes no network
\* call: no POST /a/profile is ever in flight with such input.
C15_InvalidInputNeverSent ==
  \A r \in PendingAt("createOrUpdateProfile", "mutation") :
    ~InvalidProfileData(r.payload[1])

\* C15 amended: the validation is the form's.  handleFormSubmit with a form
\* whose fields are all empty after trimming, or whose email or avatar URL
\* is malformed, shows an alert, issues no request and leaves the form
\* open; every POST /a/profile it makes carries valid input.
C15_FormRejectsInvalidInput ==
  /\ \A r \in PendingAt("createOrUpdateProfile", "mutation") :
       r.formSubmit => ~InvalidProfileData(r.payload[1])
  /\ After("handleFormSubmit", {"alert"}) =>
       /\ issued = NoRequest
       /\ showProfileForm
       /\ \/ InvalidProfileData(profileDataOf(profileForm))
          \/ ~AvatarOk(trim(profileForm.avatar))

\* the form submitted with a malformed email and a name
C15_Witness ==
  /\ After("handleFormSubmit", {"alert"})
  /\ trim(profileForm.name) # Empty
  /\ trim(profileForm.email) # Empty
  /\ ~EmailOk(trim(profileForm.email))
  /\ inv = EmptyBag
  /\ issued = NoRequest

\* C16: checkAuthStatus() and fetchUserData() never surface a failure to
\* the UI: every step of theirs, whatever the outcome, leaves error and
\* isLoading as they were; a failed status check only sets isAuthenticated
\* false and userData null, a failed fetch only sets userData null.
C16_ReadsLeaveErrorAndLoading ==
  [][/\ (\/ last'.op \in {"checkAuthStatus", "fetchUserData"}
         \/ issued' = Issue("GET /auth/status"))
        => UNCHANGED <<error, isLoading>>
     /\ (last'.op = "checkAuthStatus" /\ last'.ev \in StatusFailures)
        => (~isAuthenticated' /\ userData' = None)
     /\ (last'.op \in {"checkAuthStatus", "fetchUserData"}
           /\ last'.ev = "profileFailed")
        => (userData' = None /\ UNCHANGED isAuthenticated)]_vars

\* a status check fails while authenticate() shows its spinner: no error
\* appears and the spinner stays
C16_Witness ==
  /\ After("checkAuthStatus", StatusFailures)
  /\ PendingAt("authenticate", "sign") # {}
  /\ ~isAuthenticated
  /\ error = None
  /\ isLoading

\* the step completes invocation r of authenticate(), which overlapped
\* another one
RacedCompletion(r) ==
  /\ r \in Invocations
  /\ r.op = "authenticate" /\ r.raced
  /\ inv' = Finish(r)
  /\ last'.op = "authenticate"

\* C17 as stated: when two authenticate() invocations overlap, after the
\* last response the state is the one the invocation that received it
\* would have produced alone: after a success isAuthenticated true, error
\* null and isLoading false; after a failure error set and isLoading false.
C17_LastResponseDecides ==
  [][\A r \in Invocations :
       (RacedCompletion(r) /\ inv' = EmptyBag) =>
         IF last'.ev \in {"profileOk", "profileFailed"}
           THEN isAuthenticated' /\ error' = None /\ ~isLoading'
           ELSE error' # None /\ ~isLoading']_vars

\* C17 amended: there is no mutual exclusion and the last write wins field
\* by field.  A failing invocation sets error and clears isLoading and
\* leaves isAuthenticated as the other one left it; a verified invocation
\* sets isAuthenticated true, then after its fetch clears isLoading, and
\* leaves error as the other one left it.
C17_LastWritePerField ==
  [][\A r \in Invocations :
       /\ RacedCompletion(r) =>
            IF last'.ev \in {"profileOk", "profileFailed"}
              THEN ~isLoading' /\ UNCHANGED <<isAuthenticated, error>>
              ELSE /\ error' # None /\ ~isLoading'
                   /\ UNCHANGED <<isAuthenticated, userData>>
       /\ (Pending(r, "authenticate", "verify") /\ r.raced
             /\ inv' = Goto(r, "profile") /\ last'.ev = "verifyOk") =>
            (isAuthenticated' /\ UNCHANGED <<error, isLoading>>)]_vars

\* the last response is a success, and the error of the other invocation,
\* which failed after this one had started, is still shown
C17_Witness ==
  /\ After("authenticate", {"profileOk"})
  /\ inv = EmptyBag
  /\ isAuthenticated
  /\ error = Some("Failed to get nonce")
  /\ ~isLoading

\* C18: a wallet change cancels nothing: what is pending when the wallet
\* disconnects or changes address is still pending after the event, and
\* the answer is applied when it arrives, isAuthenticated set true and
\* userData filled although the wallet is disconnected by then.
C18_WalletChangeCancelsNothing ==
  [][/\ last'.op = "wallet" => inv \sqsubseteq inv'
     /\ (~isConnected' /\ last'.op \in {"checkAuthStatus", "authenticate"})
        => /\ last'.ev \in {"true", "verifyOk"} => isAuthenticated'
           /\ last'.ev = "profileOk" => userData' # None]_vars

\* the status check started at mount is answered after the wallet has
\* disconnected
C18_Witness ==
  /\ After("checkAuthStatus", {"profileOk"})
  /\ ~isConnected /\ address = NoAddress
  /\ isAuthenticated
  /\ userData # None

\* C19: fetchUserData() has no cache: every call issues its own
\* GET /a/profile, also when userData already holds what the server has;
\* and when it is called again with the server state unchanged, the answer
\* leaves userData with the value the previous call left.
C19_FetchTwiceSameData ==
  [][/\ (last'.op = "fetchUserData" /\ last'.ev = "start")
        => /\ issued' = Issue("GET /a/profile")
           /\ BagCardinality(inv') = BagCardinality(inv) + 1
           /\ UNCHANGED userData
     /\ (/\ After("fetchUserData", {"start"})
         /\ userData = Some(UserDataBody(srvProfile))
         /\ last'.op = "fetchUserData" /\ last'.ev = "profileOk")
        => (userData' = userData /\ issued' = NoRequest)]_vars

\* a call answered after user data had been fetched, nothing else pending
C19_Witness ==
  /\ After("fetchUserData", {"profileOk"})
  /\ last.hadData
  /\ userData = Some(UserDataBody(srvProfile))
  /\ nextId = 2
  /\ inv = EmptyBag
  /\ ~isAuthenticated /\ ~isLoading /\ error = None

\* C20: the steps of one authenticate() are strictly sequential, one
\* request outstanding at a time: the nonce request first, the signing
\* request only once the nonce has arrived, POST /auth/verify only once the
\* wallet has returned the signature; a failed nonce request or a failed
\* signing ends the invocation with no further request.
C20_AuthenticateSequential ==
  /\ last.op = "authenticate" => Len(issued) <= 1
  /\ After("authenticate", {"start"}) => issued = Issue("GET /auth/nonce")
  /\ After("authenticate", {"nonceOk"}) => issued = Issue("signMessage")
  /\ After("authenticate", {"signOk"}) => issued = Issue("POST /auth/verify")
  /\ After("authenticate", AuthenticateFailures) => issued = NoRequest
  /\ \A r \in Invocations :
       r.op = "authenticate" =>
         /\ r.pc \in {"nonce", "sign", "verify", "profile"}
         /\ r.pc = "nonce" => (r.nonce = 0 /\ r.message = NoMessage)
         /\ r.pc \in {"nonce", "sign"} =>
              (r.signature = NoSignature /\ r.body = NoBody)
         /\ r.pc # "nonce" => (r.nonce >= 1 /\ r.message # NoMessage)
         /\ r.pc \in {"verify", "profile"} =>
              (r.signature # NoSignature /\ r.body # NoBody)

\* the wallet refuses to sign: the invocation ends there
C20_Witness ==
  /\ After("authenticate", {"signFailed"})
  /\ issued = NoRequest
  /\ inv = EmptyBag
  /\ srvNonce = 1
  /\ error # None /\ ~isLoading

\* C21: in the profile form, when the createOrUpdateProfile() call of a
\* submission fails, the handler leaves the form and its three fields as
\* they are, and the error is thrown to it; when the call succeeds the
\* handler closes the form and resets the three fields to empty.
C21_FormKeptOnFailure ==
  [][\A r \in Invocations :
       (r.formSubmit /\ inv' = Finish(r)) =>
         /\ last'.ev \in {"mutationFailed", "profileOk", "profileFailed"}
         /\ last'.ev = "mutationFailed" =>
              /\ UNCHANGED <<showProfileForm, profileForm>>
              /\ last'.thrown # None
              /\ error' # None
         /\ last'.ev # "mutationFailed" =>
              /\ ~showProfileForm'
              /\ profileForm' = EmptyForm]_vars

\* a submission failed: the form is open with the name and the email typed
C21_Witness ==
  /\ After("createOrUpdateProfile", {"mutationFailed"})
  /\ last.formSubmit
  /\ showProfileForm
  /\ profileForm.name = <<" ", "A", "l", " ">>
  /\ EmailOk(trim(profileForm.email))
  /\ error = Some("Failed to update profile")

\* the invocation a step has started
Started == CHOOSE r \in BagToSet(inv') : inv' = Start(r)

\* C22: the payload the profile form sends with POST /a/profile has, for
\* each of name, email and avatar, the trimmed value of the field when that
\* is non-empty and no entry when the field is empty after trimming; no
\* field is sent as an empty string or with surrounding spaces.
C22_PayloadIsTrimmedNonEmptyFields ==
  [][(nextId' = nextId + 1 /\ last'.ev = "start" /\ last'.formSubmit) =>
       /\ issued' = Issue("POST /a/profile")
       /\ Started.payload # None
       /\ DOMAIN Started.payload[1] = {"name", "email", "avatar"}
       /\ \A f \in {"name", "email", "avatar"} :
            LET sent == Started.payload[1][f]
                typed == profileForm[f]
            IN  /\ (\A i \in 1..Len(typed) : IsSpace(typed[i])) <=> sent = None
                /\ sent # None =>
                     /\ sent[1] = trim(typed)
                     /\ sent[1] # Empty
                     /\ ~IsSpace(sent[1][1])
                     /\ ~IsSpace(sent[1][Len(sent[1])])]_vars

\* a form with a padded name, a blank email and an avatar was submitted: the
\* name is sent trimmed, the email is left out
C22_Witness ==
  /\ After("createOrUpdateProfile", {"start"})
  /\ last.formSubmit
  /\ profileForm.name = <<" ", "A", "l", " ">>
  /\ profileForm.email = Empty
  /\ profileForm.avatar # Empty
  /\ \E r \in PendingAt("createOrUpdateProfile", "mutation") :
        /\ r.formSubmit
        /\ r.payload[1].name = Some(<<"A", "l">>)
        /\ r.payload[1].email = None
        /\ r.payload[1].avatar # None

\* C23: whenever no controller operation is in flight, user data is held
\* only for an authenticated session: userData non-null implies
\* isAuthenticated.
C23_UserDataOnlyWhenAuthenticated ==
  inv = EmptyBag => (userData # None => isAuthenticated)

\* the operations that set isLoading
LoadingOps == {"authenticate", "logout", "createOrUpdateProfile",
               "deleteProfile"}
LoadingPending == {r \in Invocations : r.op \in LoadingOps}

\* a step that starts, or completes, an invocation of one of the operations
Starts(ops) ==
  BagCardinality(inv') > BagCardinality(inv) /\ last'.op \in ops
Completes(ops) ==
  BagCardinality(inv') < BagCardinality(inv) /\ last'.op \in ops

\* C24 as claimed: isLoading is true in every state in which an
\* authenticate(), logout(), createOrUpdateProfile() or deleteProfile()
\* invocation is in flight, overlapping invocations included.
C24_LoadingWhileInFlight == LoadingPending # {} => isLoading

\* C24: isLoading is one flag written by every invocation: each start of
\* authenticate(), logout(), createOrUpdateProfile() or deleteProfile() sets
\* it true, each completion of one sets it false whether or not another is
\* still pending, and nothing else writes it; so it stays true from a start
\* until the first completion of any of these invocations.
C24_FirstCompletionClearsLoading ==
  [][/\ Starts(LoadingOps) => isLoading'
     /\ Completes(LoadingOps) => ~isLoading'
     /\ (isLoading /\ ~isLoading') => Completes(LoadingOps)
     /\ (~isLoading /\ isLoading') => Starts(LoadingOps)]_vars

\* a logout completed while an authenticate() waits for the wallet: isLoading
\* is false with that invocation in flight
C24_Witness ==
  /\ After("logout", LogoutOutcomes)
  /\ PendingAt("authenticate", "sign") # {}
  /\ ~isLoading

\* C25: through the view, a profile submission (POST /a/profile from the
\* form) is only issued while the wallet is connected and isAuthenticated is
\* true, also for a form that was opened before a logout, a disconnect or a
\* failed status check.
C25_SubmitOnlyWhenAuthenticated ==
  (After("createOrUpdateProfile", {"start"}) /\ last.formSubmit) =>
    /\ issued = Issue("POST /a/profile")
    /\ isConnected
    /\ address # NoAddress
    /\ last.wasAuth

\* C26 as claimed: a response to a request issued before a logout cleared the
\* session never turns isAuthenticated true or userData non-null.
C26_StaleResponsesIgnored ==
  last.stale =>
    /\ isAuthenticated => last.wasAuth
    /\ userData # None => last.hadData

\* C26: a logout aborts nothing: the invocations pending when it clears the
\* session stay pending, and their responses are applied like any other.
\* isAuthenticated turns true exactly at a status answer of authenticated
\* true or at a successful verification, and userData turns non-null exactly
\* at a successful GET /a/profile, whether the request was issued before or
\* after the logout completed.
C26_LogoutCancelsNothing ==
  [][/\ (~isAuthenticated /\ isAuthenticated') =>
          last'.ev \in {"true", "verifyOk"}
     /\ (userData = None /\ userData' # None) => last'.ev = "profileOk"
     /\ last'.ev \in {"true", "verifyOk"} => isAuthenticated'
     /\ last'.ev = "profileOk" => userData' # None
     /\ Completes({"logout"}) =>
          /\ BagCardinality(inv') = BagCardinality(inv) - 1
          /\ last'.ev \in {"ok", "notOk"} =>
               /\ ~isAuthenticated' /\ userData' = None
               /\ \A r \in BagToSet(inv') : r.stale]_vars

\* the verification of an authenticate() started before a logout answers
\* after the logout has cleared the session: the session is authenticated
\* again
C26_Witness ==
  /\ After("authenticate", {"verifyOk"})
  /\ last.stale
  /\ ~last.wasAuth
  /\ isAuthenticated

\* C27: provided every request and the signing prompt eventually answer,
\* every authenticate(), logout(), createOrUpdateProfile() or deleteProfile()
\* invocation eventually completes, on success and on failure, and isLoading
\* is then false; isLoading is true only while such an invocation is
\* pending, so it is false once all invocations have completed.
C27_LoadingEventuallyCleared ==
  /\ [](isLoading => LoadingPending # {})
  /\ [](inv = EmptyBag => ~isLoading)
  /\ (LoadingPending # {}) ~> (LoadingPending = {} /\ ~isLoading)

\* an authenticate() ended in its catch block, at the nonce, the signature or
\* the verification: nothing is pending and isLoading is false again
C27_Witness ==
  /\ After("authenticate", AuthenticateFailures)
  /\ inv = EmptyBag
  /\ nextId = 1
  /\ error # None
  /\ ~isLoading

====
